---- MODULE Spec2Model ----
(***************************************************************************)
(* The sale-history cache of sorare-dashboard: the recent_sales table of   *)
(* db_backend.py (ensure_schema, max_date_for_player, upsert_sales,        *)
(* load_sales_for_owned) and the ingestion loop fetch_recent_sales of      *)
(* sorare_backend.py, which pages the remote tokenPrices feed per owned    *)
(* card and writes the accepted nodes to the table.                        *)
(*                                                                         *)
(* Time is counted in whole days.  A timestamp is <<t>>, the absent        *)
(* timestamp (None, NaT, SQL NULL) is <<>>.  price_eur is held in          *)
(* hundredths of a euro, so eurCents / 100.0 keeps its digits.  An absent  *)
(* string (None, SQL NULL) is NoneStr.                                     *)
(***************************************************************************)
EXTENDS Integers, Sequences, FiniteSets, TLC

\* ------------------------------------------------------------------ bounds
\* longest inventory (rows of df_owned) of one run
MaxOwned == 2
\* longest batch handed to a direct upsert_sales call
MaxRows == 2
\* largest batch_size (feed page size) of a run
MaxBatch == 3
\* largest total_limit of a run and per_player_limit of a window read
MaxLimit == 2
\* most rows of a sales frame, and most values of a weighted_median call
MaxSales == 3
\* largest weight of a weighted_median call
MaxWeight == 3
\* longest list of decay rates of a test_lambdas call
MaxRates == 2
\* most accepted records of a run whose orders are all tried
MaxShuffle == 4

\* ------------------------------------------------------------ basic values
NoneStr == "None"
NaT == << >>
NoInt == << >>

\* A date string of the feed: an ISO timestamp with a UTC offset, a missing
\* date (None), or a string that is no timestamp.
IsoDate(local, off) == [kind |-> "iso", local |-> local, off |-> off]
NoDateStr == [kind |-> "none"]
Garbled == [kind |-> "garbled"]

\* mutant: the UTC offset of the timestamp is dropped
ToDatetimeCoerce_Naive(d) == IF d.kind = "iso" THEN << d.local >> ELSE NaT

\* pd.to_datetime(x, utc=True, errors="coerce"): the UTC instant, NaT for a
\* missing or unparseable date.
ToDatetimeCoerce(d) ==
    IF d.kind = "iso" THEN << d.local - d.off >> ELSE NaT

\* pd.to_datetime(x, utc=True) with the default errors="raise": an
\* unparseable string raises ValueError.
ToDatetimeRaises(d) == d.kind = "garbled"

\* Python truthiness of an optional string: None and "" are falsy.
Truthy(s) == s /= NoneStr /\ s /= ""

\* row["rarity"].lower().replace(" ", "_")
RarityKey(r) ==
    CASE r = "Rare" -> "rare"
      [] r = "Super Rare" -> "super_rare"
      [] r = "Limited" -> "limited"
      [] OTHER -> r

\* "IN_SEASON" if row.get("in_season_eligible") else "CLASSIC"
SeasonEligibility(flag) == IF flag = TRUE THEN "IN_SEASON" ELSE "CLASSIC"

\* eur_cents / 100.0 if eur_cents else None  (0 is falsy)
PriceEur(eur_cents) ==
    IF eur_cents = NoInt \/ eur_cents = << 0 >> THEN NoInt ELSE eur_cents

Min(S) == CHOOSE x \in S : \A y \in S : x <= y
Max(S) == CHOOSE x \in S : \A y \in S : y <= x
Min2(a, b) == IF a <= b THEN a ELSE b

\* all sequences over S of length at most n
SeqsUpTo(S, n) == UNION { [1..k -> S] : k \in 0..n }

Last(s) == s[Len(s)]
Take(s, n) == SubSeq(s, 1, Min2(n, Len(s)))
Range(s) == { s[k] : k \in 1..Len(s) }

\* ------------------------------------------------------------ the universe
Players == << "aaa", "bbb" >>

\* the owned cards an inventory is drawn from: rows of df_owned
Card(slug, rarity, inSeason) ==
    [player_slug |-> slug, rarity |-> rarity, in_season_eligible |-> inSeason]
Cards ==
    { Card("aaa", "Rare", FALSE),
      Card("aaa", "Super Rare", TRUE),
      Card("bbb", "Rare", FALSE) }

\* the feed partition a request names
Key(slug, rarity, season) ==
    [slug |-> slug, rarity |-> rarity, seasonEligibility |-> season]
KeyOf(card) ==
    Key(card.player_slug, RarityKey(card.rarity),
        SeasonEligibility(card.in_season_eligible))
Keys == { KeyOf(c) : c \in Cards }

\* a node of tokenPrices: id, amounts.eurCents, date, card.slug,
\* card.inSeasonEligible, deal.userSeller.slug, deal.userBuyer.slug
Node(id, cents, date, card, inSeason, seller, buyer) ==
    [id |-> id, eurCents |-> cents, date |-> date, card_slug |-> card,
     inSeasonEligible |-> inSeason, userSeller |-> seller, userBuyer |-> buyer]

\* a row of recent_sales
Row(id, slug, rarity, card, inSeason, price, buyer, seller, date) ==
    [id |-> id, player_slug |-> slug, rarity |-> rarity, card_slug |-> card,
     in_season_eligible |-> inSeason, price_eur |-> price,
     buyer_slug |-> buyer, seller_slug |-> seller, date |-> date]

\* -------------------------------------------------------- the remote feed
\* One partition of the remote feed: the player object the API answers
\* with (NoneStr: anyPlayer is null) and its nodes, newest first.
\* `gone` is the number of delivered nodes from which on the API answers
\* with no player object.
PartitionGone(player, nodes, gone) ==
    [player |-> player, nodes |-> nodes, gone |-> gone]
Partition(player, nodes) == PartitionGone(player, nodes, Len(nodes) + 1)

S1 == Node("s1", << 2000 >>, IsoDate(0, 0), "aaa-rare-1", FALSE, "u1", "u2")
S2 == Node("s2", << 1500 >>, IsoDate(0, 1), "aaa-rare-2", FALSE, "u1", "u3")
S3 == Node("s3", << 1000 >>, IsoDate(-5, 0), "aaa-rare-1", FALSE, "u2", "u1")
X1 == Node("x1", << 3000 >>, IsoDate(0, 0), "aaa-sr-1", TRUE, NoneStr, "u1")
X2 == Node("x2", NoInt, IsoDate(-3, 0), "aaa-sr-1", TRUE, "u2", NoneStr)
X3 == Node("x3", << 2500 >>, Garbled, "aaa-sr-2", TRUE, "u1", "u2")
B1 == Node("b1", << 700 >>, IsoDate(0, 0), "bbb-rare-1", FALSE, "u1", "u2")
B2 == Node("b2", << 0 >>, IsoDate(1, 1), "bbb-rare-2", FALSE, "u2", "u3")
X4 == Node("x4", << 2800 >>, IsoDate(-2, 0), "aaa-sr-2", TRUE, NoneStr, "u3")
X5 == Node("x5", << 2700 >>, IsoDate(-4, 0), "aaa-sr-1", TRUE, NoneStr, "u2")
X6 == Node("x6", << 2600 >>, IsoDate(-6, 0), "aaa-sr-2", TRUE, NoneStr, "u1")
M1 == Node("m1", << 2400 >>, NoDateStr, "aaa-sr-1", TRUE, "u3", "u1")

FeedA ==
    [k \in Keys |->
        CASE k = Key("aaa", "rare", "CLASSIC") ->
                Partition("aaa", << S1, S2, S3 >>)
          [] k = Key("aaa", "super_rare", "IN_SEASON") ->
                Partition("aaa", << X1, X2, X3 >>)
          [] OTHER ->
                Partition("bbb", << B1, B2 >>)]

Feeds == { FeedA }

\* a feed that does not keep the order of the dates (s1, the newest sale,
\* comes last), whose in-season sales, a longer history, all lack a seller,
\* and that has no sale at all of the second player
FeedB ==
    [k \in Keys |->
        CASE k = Key("aaa", "rare", "CLASSIC") ->
                Partition("aaa", << S2, S3, S1 >>)
          [] k = Key("aaa", "super_rare", "IN_SEASON") ->
                Partition("aaa", << X1, X4, X5, X6 >>)
          [] OTHER ->
                Partition("bbb", << >>)]

\* a feed that stops answering with a player object after the first node
\* of the first player's classic sales, has an in-season sale without a
\* date, and knows no player for the second slug
FeedC ==
    [k \in Keys |->
        CASE k = Key("aaa", "rare", "CLASSIC") ->
                PartitionGone("aaa", << S1, S2, S3 >>, 1)
          [] k = Key("aaa", "super_rare", "IN_SEASON") ->
                Partition("aaa", << M1, X2 >>)
          [] OTHER ->
                PartitionGone(NoneStr, << >>, 0)]

RunFeeds == { FeedA, FeedB, FeedC }

\* client.execute(query, {slug, rarity, before, last, seasonEligibility}):
\* the page of at most `last` nodes that follows the cursor `before`
\* (None: the newest page), its startCursor and hasPreviousPage.
Response(fd, key, before, last) ==
    LET part == fd[key]
        from == IF before = NoInt THEN 0 ELSE before[1]
        upto == Min2(from + last, Len(part.nodes))
    IN  [player |-> IF from >= part.gone THEN NoneStr ELSE part.player,
         nodes |-> SubSeq(part.nodes, from + 1, upto),
         startCursor |-> << upto >>,
         hasPreviousPage |-> upto < Len(part.nodes)]

\* ------------------------------------------------------ the recent_sales table
Ids(rows) == { r.id : r \in rows }

\* mutant: the DELETE keeps the rows without a seller
DeleteNullSellers_Kept(rows) == rows

\* mutant: the DELETE has its condition inverted
DeleteNullSellers_Inverted(rows) == { r \in rows : r.seller_slug = NoneStr }

\* DELETE FROM recent_sales WHERE seller_slug IS NULL
DeleteNullSellers(rows) == { r \in rows : r.seller_slug /= NoneStr }

\* mutant: SELECT MIN(date), the oldest date of the player
MaxDate_Oldest(rows, slug) ==
    LET ds == { r.date[1] : r \in { q \in rows : q.player_slug = slug /\ q.date /= NaT } }
    IN  IF ds = {} THEN NaT ELSE << Min(ds) >>

\* SELECT MAX(date) FROM recent_sales WHERE player_slug = :slug
\* (MAX skips NULL dates and is NULL over no row)
MaxDate(rows, slug) ==
    LET ds == { r.date[1] : r \in { q \in rows : q.player_slug = slug /\ q.date /= NaT } }
    IN  IF ds = {} THEN NaT ELSE << Max(ds) >>

\* mutant: the seller filter is missing
KeepSellers_All(rows) == rows

\* rows = [r for r in rows if r.get("seller_slug")]
KeepSellers(rows) == SelectSeq(rows, LAMBDA r : Truthy(r.seller_slug))

\* the row an INSERT writes for one dict of `rows`: the date parsed to UTC
StoredRow(r) ==
    Row(r.id, r.player_slug, r.rarity, r.card_slug, r.in_season_eligible,
        r.price_eur, r.buyer_slug, r.seller_slug, ToDatetimeCoerce(r.date))

\* mutant: a plain INSERT into a table without the key on id
InsertDoNothing_NoKey(table, rows) ==
    table \cup { StoredRow(rows[k]) : k \in 1..Len(rows) }

\* mutant: ON CONFLICT (id) DO UPDATE, the incoming row replaces the stored
RECURSIVE InsertDoNothing_Update(_, _)
InsertDoNothing_Update(table, rows) ==
    IF rows = << >> THEN table
    ELSE LET r == StoredRow(Head(rows))
         IN  InsertDoNothing_Update(
                 { q \in table : q.id /= r.id } \cup { r }, Tail(rows))

\* INSERT ... ON CONFLICT (id) DO NOTHING, row by row: a row whose id is in
\* the table, or was inserted earlier by the same statement, is skipped.
RECURSIVE InsertDoNothing(_, _)
InsertDoNothing(table, rows) ==
    IF rows = << >> THEN table
    ELSE LET r == StoredRow(Head(rows))
         IN  InsertDoNothing(
                 IF r.id \in Ids(table) THEN table ELSE table \cup { r },
                 Tail(rows))

\* The statement of upsert_sales cannot run when a date does not convert:
\* an unparseable string raises in pd.to_datetime, and a missing date becomes
\* NaT, which the driver renders as the literal 'NaT' that TIMESTAMPTZ rejects.
\* seller_slug is NOT NULL once ensure_schema has run, as it has before
\* every call.
InsertRaises(rows) ==
    \E k \in 1..Len(rows) :
        \/ ToDatetimeRaises(rows[k].date)
        \/ ToDatetimeCoerce(rows[k].date) = NaT
        \/ rows[k].seller_slug = NoneStr

\* upsert_sales(engine, rows): the table afterwards and whether it raised
UpsertSales(table, rows) ==
    LET kept == KeepSellers(rows)
    IN  IF kept = << >> THEN [table |-> table, raised |-> FALSE]
        ELSE IF InsertRaises(kept) THEN [table |-> table, raised |-> TRUE]
        ELSE [table |-> InsertDoNothing(table, kept), raised |-> FALSE]

\* mutant: the window is ranked ORDER BY date ASC
DescOrdered_Asc(a, b) == a = NaT \/ (b /= NaT /\ a[1] <= b[1])

\* ORDER BY date DESC: a NULL date sorts first, equal dates in any order
DescOrdered(a, b) == a = NaT \/ (b /= NaT /\ a[1] >= b[1])

\* the orders ROW_NUMBER() OVER (ORDER BY date DESC) can number the rows in
Rankings(rows) ==
    { s \in [1..Cardinality(rows) -> rows] :
        /\ \A i, j \in 1..Cardinality(rows) : i /= j => s[i] /= s[j]
        /\ \A i, j \in 1..Cardinality(rows) : i < j => DescOrdered(s[i].date, s[j].date) }

\* mutant: the rank filter is off by one, rn <= :limit + 1
RankAtMost_OneMore(ranking, limit) == Take(ranking, IF limit < 0 THEN 0 ELSE limit + 1)

\* WHERE rn <= :limit
RankAtMost(ranking, limit) == Take(ranking, IF limit < 0 THEN 0 ELSE limit)

\* the ranked CTE partition by partition and the rows with rn <= :limit
RECURSIVE Ranked(_, _, _, _)
Ranked(table, slugs, limit, players) ==
    IF players = << >> THEN { << >> }
    ELSE LET p == Head(players)
             rest == Ranked(table, slugs, limit, Tail(players))
             mine == { r \in table : r.player_slug = p }
         IN  IF p \in Range(slugs)
             THEN { RankAtMost(rk, limit) \o w : rk \in Rankings(mine), w \in rest }
             ELSE rest

\* load_sales_for_owned(engine, owned_slugs, per_player_limit): the frames it
\* can return (one per way of numbering rows of equal date)
LoadSalesForOwned(table, owned_slugs, per_player_limit) ==
    IF owned_slugs = << >> THEN { << >> }
    ELSE Ranked(table, owned_slugs, per_player_limit, Players)

\* list(df_owned["player_slug"].unique()): first appearances, in order
RECURSIVE UniqueSlugs(_)
UniqueSlugs(owned) ==
    IF owned = << >> THEN << >>
    ELSE LET init == UniqueSlugs(SubSeq(owned, 1, Len(owned) - 1))
             s == Last(owned).player_slug
         IN  IF s \in Range(init) THEN init ELSE Append(init, s)

\* ------------------------------------------------- the loop over one page
\* mutant: the watermark test is strict, n_dt < last_dt
ReachedKnown_Strict(last, n_dt) == last /= NaT /\ n_dt /= NaT /\ n_dt[1] < last[1]

\* mutant: a date that does not parse counts as known history
ReachedKnown_NaTKnown(last, n_dt) ==
    last /= NaT /\ (n_dt = NaT \/ n_dt[1] <= last[1])

\* last_dt is not None and pd.notna(n_dt) and n_dt <= last_dt
ReachedKnown(last, n_dt) == last /= NaT /\ n_dt /= NaT /\ n_dt[1] <= last[1]

\* the dict appended to new_rows for an accepted node
NewRow(n, player_slug, rarity) ==
    Row(n.id, player_slug, rarity, n.card_slug, n.inSeasonEligible,
        PriceEur(n.eurCents), n.userBuyer, n.userSeller, n.date)

\* mutant: a node without a seller is skipped but counted
RECURSIVE ScanNodes_CountAll(_, _, _, _, _)
ScanNodes_CountAll(nodes, last, player_slug, rarity, acc) ==
    IF nodes = << >> THEN acc
    ELSE LET n == Head(nodes)
             n_dt == ToDatetimeCoerce(n.date)
             next ==
                 IF ReachedKnown(last, n_dt)
                 THEN [acc EXCEPT !.stop = TRUE]
                 ELSE IF ~ Truthy(n.userSeller)
                 THEN [acc EXCEPT !.fetched_new = @ + 1]
                 ELSE [acc EXCEPT
                         !.new_rows = Append(@, NewRow(n, player_slug, rarity)),
                         !.fetched_new = @ + 1]
         IN  ScanNodes_CountAll(Tail(nodes), last, player_slug, rarity, next)

\* for n in nodes: ... ; acc holds stop, new_rows and fetched_new
RECURSIVE ScanNodes(_, _, _, _, _)
ScanNodes(nodes, last, player_slug, rarity, acc) ==
    IF nodes = << >> THEN acc
    ELSE LET n == Head(nodes)
             n_dt == ToDatetimeCoerce(n.date)
             next ==
                 IF ReachedKnown(last, n_dt)
                 THEN [acc EXCEPT !.stop = TRUE]
                 ELSE IF ~ Truthy(n.userSeller)
                 THEN acc
                 ELSE [acc EXCEPT
                         !.new_rows = Append(@, NewRow(n, player_slug, rarity)),
                         !.fetched_new = @ + 1]
         IN  ScanNodes(Tail(nodes), last, player_slug, rarity, next)

\* mutant: the loop ends one record short of the quota
LoopTest_Short(fetched, limit, stopped) == fetched + 1 < limit /\ ~ stopped

\* mutant: the loop does not test the quota
LoopTest_NoQuota(fetched, limit, stopped) == ~ stopped

\* while fetched_new < total_limit and not stop
LoopTest(fetched, limit, stopped) == fetched < limit /\ ~ stopped

\* ---------------------------------------------- the estimator, price_history.py
\* A float column holds a number << x >> or NaN, written NoInt.  np.argsort
\* and np.sort place NaN after every number.
ValueLeq(a, b) == b = NoInt \/ (a /= NoInt /\ a[1] <= b[1])

\* mutant: the sort is missing, the pairs stay in the order of the input
ArgSorts_Unsorted(data) == { [k \in 1..Len(data) |-> k] }

\* sorter = np.argsort(data): the default sort is not stable, so equal
\* values can come in any order
ArgSorts(data) ==
    { f \in Permutations(1..Len(data)) :
        \A i, j \in 1..Len(data) : i < j => ValueLeq(data[f[i]], data[f[j]]) }

RECURSIVE SumSeq(_)
SumSeq(w) == IF w = << >> THEN 0 ELSE w[1] + SumSeq(Tail(w))

\* np.cumsum(weights)
CumSum(w) == [k \in 1..Len(w) |-> SumSeq(SubSeq(w, 1, k))]

\* mutant: np.searchsorted(..., side="right"), the first position whose
\* cumulative weight is greater than the cutoff
SearchSorted_Right(cumsum, total) ==
    LET hits == { k \in 1..Len(cumsum) : 2 * cumsum[k] > total }
    IN  IF hits = {} THEN Len(cumsum) + 1 ELSE Min(hits)

\* np.searchsorted(cumsum, cutoff) with cutoff = total / 2 and side="left":
\* the first position with cumsum >= cutoff, the length (past the end) when
\* there is none.  Positions count from 1 here.
SearchSorted(cumsum, total) ==
    LET hits == { k \in 1..Len(cumsum) : 2 * cumsum[k] >= total }
    IN  IF hits = {} THEN Len(cumsum) + 1 ELSE Min(hits)

\* weighted_median(data, weights): the values it can return, one per way of
\* sorting equal values
WeightedMedian(data, weights) ==
    { LET sorted == [k \in 1..Len(data) |-> data[f[k]]]
          w == [k \in 1..Len(data) |-> weights[f[k]]]
      IN  sorted[SearchSorted(CumSum(w), SumSeq(w))] : f \in ArgSorts(data) }

\* a row of the sales frame the estimator reads: the three columns it uses
Sale(slug, price, day) ==
    [player_slug |-> slug, price_eur |-> price, date |-> << day >>]

\* A decay rate lambda_ is held as its base e^lambda_ (1 for lambda_ = 0), so
\* np.exp(-lambda_ * days_ago) is base^(-days_ago).  The weights of one
\* group are all multiplied by base^span, span the largest days_ago of the
\* group, which keeps them whole numbers and moves no comparison of a
\* cumulative weight with half of the total.
DecayWeight(base, days_ago, span) == base ^ (span - days_ago)

\* group.sort_values('date'): the orders the rows of a group can come in
DateSorts(group) ==
    { f \in Permutations(1..Len(group)) :
        \A i, j \in 1..Len(group) : i < j => group[f[i]].date[1] <= group[f[j]].date[1] }

\* lines 119-124 for one group: the estimates it can get
GroupEstimate(group, base) ==
    LET latest_date == Max({ group[k].date[1] : k \in 1..Len(group) })
        days_ago == [k \in 1..Len(group) |-> latest_date - group[k].date[1]]
        span == Max(Range(days_ago))
        weight == [k \in 1..Len(group) |-> DecayWeight(base, days_ago[k], span)]
    IN  UNION { WeightedMedian([k \in 1..Len(group) |-> group[f[k]].price_eur],
                               [k \in 1..Len(group) |-> weight[f[k]]])
                : f \in DateSorts(group) }

\* for name, group in df.groupby('player_slug'): the groups in key order,
\* one result row each
RECURSIVE EstimateRows(_, _, _)
EstimateRows(df, base, players) ==
    IF players = << >> THEN { << >> }
    ELSE LET group == SelectSeq(df, LAMBDA r : r.player_slug = Head(players))
             rest == EstimateRows(df, base, Tail(players))
         IN  IF group = << >> THEN rest
             ELSE { << [player_slug |-> Head(players), estimated_value_eur |-> v] >> \o w :
                        v \in GroupEstimate(group, base), w \in rest }

\* estimate_current_value(df, lambda_): the frames it can return;
\* pd.DataFrame([]) has no column at all
EstimateCurrentValue(df, base) ==
    { [columns |-> IF rows = << >> THEN << >>
                   ELSE << "player_slug", "estimated_value_eur" >>,
       rows |-> rows] : rows \in EstimateRows(df, base, Players) }

\* est_df.rename(columns={'estimated_value_eur': f'est_value_lambda_{lam}'}):
\* the estimate columns of a frame are held as the list of their rates and
\* each row holds its estimates in that order
Renamed(est_df, lam) ==
    [columns |-> << lam >>,
     rows |-> [k \in 1..Len(est_df.rows) |->
                 [player_slug |-> est_df.rows[k].player_slug,
                  est |-> << est_df.rows[k].estimated_value_eur >>]]]

\* mutant: the join ignores the key and takes the first row of the frame
Cells_First(frame, slug) ==
    IF frame.rows = << >> THEN [k \in 1..Len(frame.columns) |-> NoInt]
    ELSE frame.rows[1].est

\* the row of a frame for one key, its cells NaN when the key is absent
Cells(frame, slug) ==
    LET hit == { k \in 1..Len(frame.rows) : frame.rows[k].player_slug = slug }
    IN  IF hit = {} THEN [k \in 1..Len(frame.columns) |-> NoInt]
        ELSE frame.rows[Min(hit)].est

RECURSIVE OuterRows(_, _, _)
OuterRows(left, right, players) ==
    IF players = << >> THEN << >>
    ELSE LET p == Head(players)
             rest == OuterRows(left, right, Tail(players))
             present == \E k \in 1..Len(left.rows) : left.rows[k].player_slug = p
             joins == \E k \in 1..Len(right.rows) : right.rows[k].player_slug = p
         IN  IF present \/ joins
             THEN << [player_slug |-> p, est |-> Cells(left, p) \o Cells(right, p)] >> \o rest
             ELSE rest

\* merged_df.merge(next_df, on='player_slug', how='outer'): the keys of
\* both frames in sorted order (each frame holds a key once)
MergeOuter(left, right) ==
    [columns |-> left.columns \o right.columns,
     rows |-> OuterRows(left, right, Players)]

\* test_lambdas(sales_df, lambdas_to_test): the frames it can return
RECURSIVE TestLambdas(_, _)
TestLambdas(sales_df, lambdas_to_test) ==
    IF lambdas_to_test = << >> THEN { [columns |-> << >>, rows |-> << >>] }
    ELSE LET lam == Last(lambdas_to_test)
             ests == { Renamed(e, lam) : e \in EstimateCurrentValue(sales_df, lam) }
         IN  IF Len(lambdas_to_test) = 1 THEN ests
             ELSE { MergeOuter(m, e) :
                      m \in TestLambdas(sales_df, SubSeq(lambdas_to_test, 1, Len(lambdas_to_test) - 1)),
                      e \in ests }

\* ------------------------------------------------------------------ state
VARIABLES
    store,        \* the rows of recent_sales
    schema,       \* "absent", "nullable" (legacy table) or "notnull"
    feed,         \* the remote feed, unchanged during a behaviour
    pc,           \* where the program is
    ret,          \* the last call of the store API or run: op, args, value
    df_owned,     \* fetch_recent_sales: the inventory
    batch_size,   \* fetch_recent_sales: page size
    total_limit,  \* fetch_recent_sales: quota per inventory row
    new_rows,     \* fetch_recent_sales: accepted rows of the run
    idx,          \* number of the inventory row being paged (0: none yet)
    last_dt,      \* watermark of the row being paged
    before,       \* cursor of the next request
    fetched_new,  \* rows accepted for the row being paged
    stop,         \* known history was reached
    log,          \* history: per inventory row, watermark read, requests
                  \* issued, node ids examined, known history seen
    runNo,        \* 0: no run, 1: a run, 2: the same run repeated, 3: the
                  \* same run retried after an interruption
    store0,       \* history: the table as the run found it (schema ensured)
    store1,       \* history: of two runs, the table as the first left it (run
                  \* repeated) or found it (run retried after an interruption)
    workers       \* concurrent upsert_sales calls: per call its rows, the
                  \* row it is at, its uncommitted rows and its state

vars == << store, schema, feed, pc, ret, df_owned, batch_size, total_limit,
           new_rows, idx, last_dt, before, fetched_new, stop, log,
           runNo, store0, store1, workers >>

runvars == << df_owned, batch_size, total_limit, new_rows, idx, last_dt,
              before, fetched_new, stop, log, runNo, store0, store1, workers >>

NoRet == [op |-> "none", args |-> << >>, value |-> << >>]

\* rows left in the table by an earlier version of the program
S4Row == Row("s4", "aaa", "rare", "aaa-rare-2", FALSE, << 500 >>, "u3", "u1", << -10 >>)
L1Row == Row("l1", "bbb", "rare", "bbb-rare-1", FALSE, << 400 >>, "u2", NoneStr, << 5 >>)
\* the tables an earlier version can have left: none, or one with rows that
\* may lack a seller
LegacyStores ==
    { { L1Row },
      { L1Row, S4Row, StoredRow(NewRow(S3, "aaa", "rare")),
        StoredRow(NewRow(S2, "aaa", "rare")) } }

\* the dicts a direct upsert_sales call is given
S1Alt == [NewRow(S1, "aaa", "rare") EXCEPT !.price_eur = << 9900 >>, !.seller_slug = "u3",
                                          !.date = IsoDate(-7, 0)]
InputRows ==
    { NewRow(S1, "aaa", "rare"), S1Alt, NewRow(B1, "bbb", "rare"),
      NewRow(X1, "aaa", "super_rare") }

Inventories == SeqsUpTo(Cards, MaxOwned)

Idle ==
    /\ df_owned = << >> /\ batch_size = 0 /\ total_limit = 0
    /\ new_rows = << >> /\ idx = 0 /\ last_dt = NaT /\ before = NoInt
    /\ fetched_new = 0 /\ stop = FALSE /\ log = << >>
    /\ runNo = 0 /\ store0 = {} /\ store1 = {}
    /\ workers = << >>

Init ==
    /\ feed \in Feeds
    /\ \/ schema = "absent" /\ store = {}
       \/ schema = "nullable" /\ store \in LegacyStores
    /\ pc = "idle"
    /\ ret = NoRet
    /\ Idle

\* ------------------------------------------------------ the store API
\* mutant: the table is created anew on every call
EnsureSchema_Recreate(table) == {}

\* ensure_schema(engine): the table exists, rows without a seller are
\* deleted and seller_slug is NOT NULL
EnsureSchema(table) == DeleteNullSellers(table)

\* ------------------------------- a run from its first line to its upsert
\* the while loop of one row of df_owned, lines 162-212, from cursor `cursor`
RECURSIVE PageLoop(_, _, _, _, _, _, _)
PageLoop(fd, card, last, bs, tl, cursor, acc) ==
    IF ~ LoopTest(acc.fetched_new, tl, acc.stop) THEN acc
    ELSE LET res == Response(fd, KeyOf(card), cursor, bs)
         IN  IF res.player = NoneStr \/ res.nodes = << >> THEN acc
             ELSE LET seen == ScanNodes(res.nodes, last, res.player,
                                        RarityKey(card.rarity), acc)
                  IN  IF seen.stop \/ ~ res.hasPreviousPage THEN seen
                      ELSE PageLoop(fd, card, last, bs, tl, res.startCursor, seen)

\* mutant: the rows of each row of df_owned are written before the next row
\* reads its watermark
RECURSIVE ItemLoop_WritePerItem(_, _, _, _, _, _)
ItemLoop_WritePerItem(fd, table, owned, bs, tl, rows) ==
    IF owned = << >> THEN rows
    ELSE LET card == Head(owned)
             acc == PageLoop(fd, card,
                             MaxDate(UpsertSales(table, rows).table, card.player_slug),
                             bs, tl, NoInt,
                             [stop |-> FALSE, new_rows |-> rows, fetched_new |-> 0])
         IN  ItemLoop_WritePerItem(fd, table, Tail(owned), bs, tl, acc.new_rows)

\* the for loop over df_owned, lines 152-212: new_rows at its end
RECURSIVE ItemLoop(_, _, _, _, _, _)
ItemLoop(fd, table, owned, bs, tl, rows) ==
    IF owned = << >> THEN rows
    ELSE LET card == Head(owned)
             acc == PageLoop(fd, card, MaxDate(table, card.player_slug), bs, tl,
                             NoInt, [stop |-> FALSE, new_rows |-> rows,
                                     fetched_new |-> 0])
         IN  ItemLoop(fd, table, Tail(owned), bs, tl, acc.new_rows)

\* the table a run that nothing interrupts leaves, and whether its upsert
\* raised
FullRun(fd, table, owned, bs, tl) ==
    UpsertSales(EnsureSchema(table),
                ItemLoop(fd, EnsureSchema(table), owned, bs, tl, << >>))

CallEnsureSchema ==
    /\ pc = "idle"
    /\ store' = EnsureSchema(store)
    /\ schema' = "notnull"
    /\ ret' = [op |-> "ensure_schema", args |-> << >>, value |-> << >>]
    /\ pc' = "ret"
    /\ UNCHANGED << feed, runvars >>

\* upsert_sales(engine, rows), called once the schema is ensured
CallUpsertSales(rows) ==
    /\ pc = "idle"
    /\ schema = "notnull"
    /\ LET out == UpsertSales(store, rows)
       IN  /\ store' = out.table
           /\ ret' = [op |-> "upsert_sales", args |-> rows, value |-> out.raised]
    /\ pc' = "ret"
    /\ UNCHANGED << schema, feed, runvars >>

\* max_date_for_player(engine, slug)
CallMaxDate(slug) ==
    /\ pc = "idle"
    /\ schema = "notnull"
    /\ ret' = [op |-> "max_date_for_player", args |-> slug,
               value |-> MaxDate(store, slug)]
    /\ pc' = "ret"
    /\ UNCHANGED << store, schema, feed, runvars >>

\* load_sales_for_owned(engine, owned_slugs, per_player_limit)
CallLoadSales(slugs, limit) ==
    /\ pc = "idle"
    /\ schema = "notnull"
    /\ \E w \in LoadSalesForOwned(store, slugs, limit) :
          ret' = [op |-> "load_sales_for_owned",
                  args |-> [owned_slugs |-> slugs, per_player_limit |-> limit],
                  value |-> w]
    /\ pc' = "ret"
    /\ UNCHANGED << store, schema, feed, runvars >>

\* the caller takes the value of a store call
Return ==
    /\ pc = "ret"
    /\ pc' = "idle"
    /\ ret' = NoRet
    /\ UNCHANGED << store, schema, feed, runvars >>

\* ------------------------------------------------ fetch_recent_sales
NoLog == [mark |-> NaT, reqs |-> 0, seen |-> << >>, known |-> FALSE,
          fetched |-> 0]

\* lines 113-150: the schema is ensured, new_rows = []
Begin(owned, bs, tl, n) ==
    /\ store' = EnsureSchema(store)
    /\ store0' = EnsureSchema(store)
    /\ schema' = "notnull"
    /\ df_owned' = owned
    /\ batch_size' = bs
    /\ total_limit' = tl
    /\ new_rows' = << >>
    /\ idx' = 0
    /\ last_dt' = NaT
    /\ before' = NoInt
    /\ fetched_new' = 0
    /\ stop' = FALSE
   
    /\ log' = << >>
    /\ runNo' = n
    /\ ret' = NoRet
    /\ pc' = "for"
    /\ UNCHANGED << feed, workers >>

StartRun(owned, bs, tl) ==
    /\ pc = "idle"
    /\ store1' = {}
    /\ Begin(owned, bs, tl, 1)

\* the same call again, right after a run that returned
Rerun ==
    /\ pc = "done"
    /\ runNo = 1
    /\ store1' = store
    /\ Begin(df_owned, batch_size, total_limit, 2)

\* the same call again, after a run that was interrupted
Retry ==
    /\ pc = "raised"
    /\ runNo = 1
    /\ store1' = store0
    /\ Begin(df_owned, batch_size, total_limit, 3)

\* mutant: the rows accepted so far are written before the next row of
\* df_owned reads its watermark
NextItem_Flush ==
    /\ pc = "for"
    /\ idx < Len(df_owned)
    /\ idx' = idx + 1
    /\ store' = UpsertSales(store, new_rows).table
    /\ last_dt' = MaxDate(store', df_owned[idx + 1].player_slug)
    /\ before' = NoInt
    /\ fetched_new' = 0
    /\ stop' = FALSE
    /\ log' = Append(log, [NoLog EXCEPT
                  !.mark = MaxDate(store', df_owned[idx + 1].player_slug)])
    /\ pc' = IF LoopTest(0, total_limit, FALSE) THEN "while" ELSE "for"
    /\ UNCHANGED << schema, feed, workers, ret, df_owned, batch_size,
                    total_limit, new_rows, runNo, store0, store1 >>

\* mutant: the cursor of the previous row is carried into the next row
NextItem_KeepCursor ==
    /\ pc = "for"
    /\ idx < Len(df_owned)
    /\ idx' = idx + 1
    /\ last_dt' = MaxDate(store, df_owned[idx + 1].player_slug)
    /\ fetched_new' = 0
    /\ stop' = FALSE
    /\ log' = Append(log, [NoLog EXCEPT
                  !.mark = MaxDate(store, df_owned[idx + 1].player_slug)])
    /\ pc' = IF LoopTest(0, total_limit, FALSE) THEN "while" ELSE "for"
    /\ UNCHANGED << store, schema, feed, workers, ret, df_owned, batch_size,
                    total_limit, new_rows, runNo, store0, store1, before >>

\* lines 152-160: the next row of df_owned, its watermark, fresh counters
NextItem ==
    /\ pc = "for"
    /\ idx < Len(df_owned)
    /\ idx' = idx + 1
    /\ last_dt' = MaxDate(store, df_owned[idx + 1].player_slug)
    /\ before' = NoInt
    /\ fetched_new' = 0
    /\ stop' = FALSE
    /\ log' = Append(log, [NoLog EXCEPT
                  !.mark = MaxDate(store, df_owned[idx + 1].player_slug)])
    /\ pc' = IF LoopTest(0, total_limit, FALSE) THEN "while" ELSE "for"
    /\ UNCHANGED << store, schema, feed, workers, ret, df_owned, batch_size,
                    total_limit, new_rows, runNo, store0, store1 >>

\* mutant: the rows accepted so far are written when the request fails
RequestRaises_Flushed ==
    /\ pc = "while"
    /\ log' = [log EXCEPT ![idx].reqs = @ + 1]
    /\ ret' = [op |-> "fetch_recent_sales", args |-> "request", value |-> "raised"]
    /\ pc' = "raised"
    /\ store' = UpsertSales(store, new_rows).table
    /\ UNCHANGED << schema, feed, workers, df_owned, batch_size, total_limit,
                    new_rows, idx, last_dt, before, fetched_new, stop, runNo,
                    store0, store1 >>

\* client.execute raises (network or API error): nothing catches it, the
\* run ends with new_rows unwritten
RequestRaises ==
    /\ pc = "while"
    /\ log' = [log EXCEPT ![idx].reqs = @ + 1]
    /\ ret' = [op |-> "fetch_recent_sales", args |-> "request", value |-> "raised"]
    /\ pc' = "raised"
    /\ UNCHANGED << store, schema, feed, workers, df_owned, batch_size, total_limit,
                    new_rows, idx, last_dt, before, fetched_new, stop, runNo,
                    store0, store1 >>

\* history: a node of the page is dated at or before the watermark
SeenKnown(nodes, last) ==
    \E k \in 1..Len(nodes) :
        /\ last /= NaT
        /\ nodes[k].date.kind = "iso"
        /\ nodes[k].date.local - nodes[k].date.off <= last[1]

\* lines 207-212 and the loop test: does the row need another request
PagesOn(acc, res, limit) ==
    /\ ~ acc.stop
    /\ res.hasPreviousPage
    /\ LoopTest(acc.fetched_new, limit, acc.stop)

\* mutant: a response without a player object raises (player.get on None)
FetchPage_NullRaises ==
    /\ pc = "while"
    /\ LET res == Response(feed, KeyOf(df_owned[idx]), before, batch_size)
       IN  IF res.player = NoneStr
           THEN /\ pc' = "raised"
                /\ ret' = [op |-> "fetch_recent_sales", args |-> "request",
                           value |-> "raised"]
                /\ log' = [log EXCEPT ![idx].reqs = @ + 1]
                /\ UNCHANGED << new_rows, fetched_new, stop, before >>
           ELSE IF res.nodes = << >>
           THEN /\ pc' = "for"
                /\ log' = [log EXCEPT ![idx].reqs = @ + 1]
                /\ UNCHANGED << new_rows, fetched_new, stop, before, ret >>
           ELSE LET acc == ScanNodes(res.nodes, last_dt, res.player,
                                     RarityKey(df_owned[idx].rarity),
                                     [stop |-> stop, new_rows |-> new_rows,
                                      fetched_new |-> fetched_new])
                IN  /\ new_rows' = acc.new_rows
                    /\ fetched_new' = acc.fetched_new
                    /\ stop' = acc.stop
                    /\ log' = [log EXCEPT
                          ![idx].reqs = @ + 1,
                          ![idx].fetched = acc.fetched_new,
                          ![idx].seen = @ \o [k \in 1..Len(res.nodes) |-> res.nodes[k].id],
                          ![idx].known = @ \/ SeenKnown(res.nodes, last_dt)]
                    /\ before' = (IF ~ acc.stop /\ res.hasPreviousPage
                                  THEN res.startCursor ELSE before)
                    /\ pc' = IF PagesOn(acc, res, total_limit) THEN "while" ELSE "for"
                    /\ UNCHANGED ret
    /\ UNCHANGED << store, schema, feed, workers, df_owned, batch_size,
                    total_limit, idx, last_dt, runNo, store0, store1 >>

\* mutant: the cursor is never moved, the newest page is requested again
FetchPage_NoAdvance ==
    /\ pc = "while"
    /\ LET res == Response(feed, KeyOf(df_owned[idx]), NoInt, batch_size)
       IN  IF res.player = NoneStr \/ res.nodes = << >>
           THEN /\ pc' = "for"
                /\ UNCHANGED << new_rows, fetched_new, stop >>
           ELSE LET acc == ScanNodes(res.nodes, last_dt, res.player,
                                     RarityKey(df_owned[idx].rarity),
                                     [stop |-> stop, new_rows |-> new_rows,
                                      fetched_new |-> fetched_new])
                IN  /\ new_rows' = acc.new_rows
                    /\ fetched_new' = acc.fetched_new
                    /\ stop' = acc.stop
                    /\ pc' = IF PagesOn(acc, res, total_limit) THEN "while" ELSE "for"
    /\ UNCHANGED << store, schema, feed, workers, ret, df_owned, batch_size,
                    total_limit, idx, last_dt, runNo, store0, store1, before, log >>

\* lines 163-212: one feed request for the row being paged and the
\* handling of its response, up to the next loop test
FetchPage ==
    /\ pc = "while"
    /\ LET res == Response(feed, KeyOf(df_owned[idx]), before, batch_size)
       IN  IF res.player = NoneStr \/ res.nodes = << >>
           THEN /\ pc' = "for"
                /\ log' = [log EXCEPT ![idx].reqs = @ + 1]
                /\ UNCHANGED << new_rows, fetched_new, stop, before >>
           ELSE LET acc == ScanNodes(res.nodes, last_dt, res.player,
                                     RarityKey(df_owned[idx].rarity),
                                     [stop |-> stop, new_rows |-> new_rows,
                                      fetched_new |-> fetched_new])
                IN  /\ new_rows' = acc.new_rows
                    /\ fetched_new' = acc.fetched_new
                    /\ stop' = acc.stop
                    /\ log' = [log EXCEPT
                          ![idx].reqs = @ + 1,
                          ![idx].fetched = acc.fetched_new,
                          ![idx].seen = @ \o [k \in 1..Len(res.nodes) |-> res.nodes[k].id],
                          ![idx].known = @ \/ SeenKnown(res.nodes, last_dt)]
                    /\ before' = (IF ~ acc.stop /\ res.hasPreviousPage
                                  THEN res.startCursor ELSE before)
                    /\ pc' = IF PagesOn(acc, res, total_limit) THEN "while" ELSE "for"
    /\ UNCHANGED << store, schema, feed, workers, ret, df_owned, batch_size,
                    total_limit, idx, last_dt, runNo, store0, store1 >>

\* line 215: upsert_sales(engine, new_rows) after the last row
Persist ==
    /\ pc = "for"
    /\ idx = Len(df_owned)
    /\ LET out == UpsertSales(store, new_rows)
       IN  IF out.raised
           THEN /\ pc' = "raised"
                /\ ret' = [op |-> "fetch_recent_sales", args |-> "upsert",
                           value |-> "raised"]
                /\ UNCHANGED store
           ELSE /\ pc' = "load"
                /\ store' = out.table
                /\ UNCHANGED ret
    /\ UNCHANGED << schema, feed, runvars >>

\* mutant: the window is read with the page size as its limit
LoadWindow_BatchLimit ==
    /\ pc = "load"
    /\ \E w \in LoadSalesForOwned(store, UniqueSlugs(df_owned), batch_size) :
          ret' = [op |-> "fetch_recent_sales", args |-> "window", value |-> w]
    /\ pc' = "done"
    /\ UNCHANGED << store, schema, feed, runvars >>

\* lines 217-219: the window over the owned players is read and returned
LoadWindow ==
    /\ pc = "load"
    /\ \E w \in LoadSalesForOwned(store, UniqueSlugs(df_owned), total_limit) :
          ret' = [op |-> "fetch_recent_sales", args |-> "window", value |-> w]
    /\ pc' = "done"
    /\ UNCHANGED << store, schema, feed, runvars >>

\* the run is interrupted after its rows were committed: the window query
\* raises (connection lost) or the session is stopped
WindowRaises ==
    /\ pc = "load"
    /\ ret' = [op |-> "fetch_recent_sales", args |-> "window", value |-> "raised"]
    /\ pc' = "raised"
    /\ UNCHANGED << store, schema, feed, runvars >>

\* the caller takes the records, or the exception, of the run
Finish ==
    /\ pc \in { "done", "raised" }
    /\ pc' = "idle"
    /\ ret' = NoRet
    /\ df_owned' = << >> /\ batch_size' = 0 /\ total_limit' = 0
    /\ new_rows' = << >> /\ idx' = 0 /\ last_dt' = NaT /\ before' = NoInt
    /\ fetched_new' = 0 /\ stop' = FALSE /\ log' = << >>
    /\ runNo' = 0 /\ store0' = {} /\ store1' = {}
    /\ UNCHANGED << store, schema, feed, workers >>

Next ==
    \/ CallEnsureSchema
    \/ \E rows \in SeqsUpTo(InputRows, MaxRows) : CallUpsertSales(rows)
    \/ \E i \in 1..Len(Players) : CallMaxDate(Players[i])
    \/ \E slugs \in SeqsUpTo(Range(Players), Len(Players)), limit \in 0..MaxLimit :
          CallLoadSales(slugs, limit)
    \/ Return
    \/ \E owned \in Inventories, bs \in 1..MaxBatch, tl \in 1..MaxLimit :
          StartRun(owned, bs, tl)
    \/ Rerun
    \/ Retry
    \/ NextItem
    \/ FetchPage
    \/ RequestRaises
    \/ Persist
    \/ LoadWindow
    \/ WindowRaises
    \/ Finish

Spec == Init /\ [][Next]_vars

\* ---------------------------------- runs of fetch_recent_sales, one after
\* the other, over either feed
InitRuns ==
    /\ feed \in RunFeeds
    /\ \/ schema = "absent" /\ store = {}
       \/ schema = "nullable" /\ store \in LegacyStores
    /\ pc = "idle"
    /\ ret = NoRet
    /\ Idle

NextRuns ==
    \/ \E owned \in Inventories, bs \in 1..MaxBatch, tl \in 1..MaxLimit :
          StartRun(owned, bs, tl)
    \/ NextItem
    \/ FetchPage
    \/ RequestRaises
    \/ Persist
    \/ LoadWindow
    \/ Finish

SpecRuns == InitRuns /\ [][NextRuns]_vars

\* runs in which every feed request is answered (no network or API error)
NextAnswered ==
    \/ \E owned \in Inventories, bs \in 1..MaxBatch, tl \in 1..MaxLimit :
          StartRun(owned, bs, tl)
    \/ NextItem
    \/ FetchPage
    \/ Persist
    \/ LoadWindow
    \/ Finish

SpecAnswered == InitRuns /\ [][NextAnswered]_vars

\* One run of fetch_recent_sales, from the call to its return or exception.
\* The run is one thread that nothing suspends: a loop that can go on does,
\* a request is answered or raises, the upsert and the window read return.
\* Whether the caller ever calls is left open.
NextOneRun ==
    \/ \E owned \in Inventories, bs \in 1..MaxBatch, tl \in 1..MaxLimit :
          StartRun(owned, bs, tl)
    \/ NextItem
    \/ FetchPage
    \/ RequestRaises
    \/ Persist
    \/ LoadWindow

RunStep == NextItem \/ FetchPage \/ Persist \/ LoadWindow

SpecOneRunFair == InitRuns /\ [][NextOneRun]_vars /\ WF_vars(RunStep)

\* ------------------------------------------------ calls of the estimator
\* the values and weights a weighted_median call is given
MedianValues == { << 5 >>, << 10 >>, << 20 >>, NoInt }
MedianCall(call) ==
    \E n \in 1..MaxSales :
        \E d \in [1..n -> MedianValues], w \in [1..n -> 1..MaxWeight] :
            call = [op |-> "weighted_median", args |-> [data |-> d, weights |-> w],
                    value |-> << >>]

\* the rows a sales frame is made of; a row read from the table can lack a
\* price (price_eur NULL)
SaleRows ==
    { Sale("aaa", << 1000 >>, 0), Sale("aaa", << 2000 >>, 1),
      Sale("aaa", << 3000 >>, 3), Sale("aaa", NoInt, 3),
      Sale("bbb", << 700 >>, 2), Sale("bbb", << 400 >>, 0) }
SalesFrames == SeqsUpTo(SaleRows, MaxSales) \ { << >> }

\* the frames run_lambda_analysis hands to test_lambdas: not empty, and the
\* rows without a price dropped (lines 222-226)
CleanFrames ==
    { df \in SalesFrames : \A k \in 1..Len(df) : df[k].price_eur /= NoInt }

\* decay rates, as bases e^lambda_: lambda_ = 0, ln 2, ln 3
Rates == << 1, 2, 3 >>
RateLists ==
    { l \in SeqsUpTo(Range(Rates), MaxRates) :
        \A i, j \in 1..Len(l) : i /= j => l[i] /= l[j] }

EstimateCall(call) ==
    \E df \in SalesFrames, b \in Range(Rates) :
        call = [op |-> "estimate_current_value", args |-> [df |-> df, lambda_ |-> b],
                value |-> << >>]
TestLambdasCall(call) ==
    \E df \in CleanFrames, l \in RateLists :
        call = [op |-> "test_lambdas", args |-> [sales_df |-> df, lambdas_to_test |-> l],
                value |-> << >>]

InitEstimate ==
    /\ feed \in Feeds
    /\ schema = "absent" /\ store = {}
    /\ Idle
    /\ pc = "call"
    /\ \/ MedianCall(ret)
       \/ EstimateCall(ret)
       \/ TestLambdasCall(ret)

CallWeightedMedian ==
    /\ pc = "call" /\ ret.op = "weighted_median"
    /\ \E v \in WeightedMedian(ret.args.data, ret.args.weights) :
          ret' = [ret EXCEPT !.value = v]
    /\ pc' = "ret"
    /\ UNCHANGED << store, schema, feed, runvars >>

CallEstimateCurrentValue ==
    /\ pc = "call" /\ ret.op = "estimate_current_value"
    /\ \E e \in EstimateCurrentValue(ret.args.df, ret.args.lambda_) :
          ret' = [ret EXCEPT !.value = e]
    /\ pc' = "ret"
    /\ UNCHANGED << store, schema, feed, runvars >>

CallTestLambdas ==
    /\ pc = "call" /\ ret.op = "test_lambdas"
    /\ \E t \in TestLambdas(ret.args.sales_df, ret.args.lambdas_to_test) :
          ret' = [ret EXCEPT !.value = t]
    /\ pc' = "ret"
    /\ UNCHANGED << store, schema, feed, runvars >>

NextEstimate ==
    \/ CallWeightedMedian
    \/ CallEstimateCurrentValue
    \/ CallTestLambdas

SpecEstimate == InitEstimate /\ [][NextEstimate]_vars

\* ------------------------------------ concurrent calls of upsert_sales
\* Two sessions call upsert_sales at the same time.  Each call filters its
\* rows, opens a transaction (engine.begin) and runs the one INSERT ... ON
\* CONFLICT (id) DO NOTHING, which takes the rows in the order of the arrays.
\* A row whose id is committed, or was inserted by the same statement, is
\* skipped; a row whose id another open transaction has inserted makes the
\* statement wait until that transaction ends.  Two statements that wait for
\* each other are a deadlock, which PostgreSQL ends by aborting one of them:
\* that call raises and its rows are rolled back.
WorkerBatches ==
    { << NewRow(S1, "aaa", "rare"), NewRow(B1, "bbb", "rare") >>,
      << NewRow(B1, "bbb", "rare"), S1Alt >>,
      << NewRow(B1, "bbb", "rare"), NewRow(S1, "aaa", "rare"), NewRow(S3, "aaa", "rare") >>,
      << NewRow(X1, "aaa", "super_rare"), NewRow(S3, "aaa", "rare") >>,
      << NewRow(S1, "aaa", "rare"), S1Alt >>,
      << NewRow(X1, "aaa", "super_rare") >> }
WorkerStores == { {}, { StoredRow(NewRow(S1, "aaa", "rare")) } }

Worker(rows) ==
    [given |-> rows, rows |-> << >>, at |-> 1, pending |-> {}, state |-> "called"]

InitWorkers ==
    /\ feed \in Feeds
    /\ schema = "notnull"
    /\ store \in WorkerStores
    /\ store0 = store
    /\ pc = "workers"
    /\ ret = NoRet
    /\ df_owned = << >> /\ batch_size = 0 /\ total_limit = 0
    /\ new_rows = << >> /\ idx = 0 /\ last_dt = NaT /\ before = NoInt
    /\ fetched_new = 0 /\ stop = FALSE /\ log = << >>
    /\ runNo = 0 /\ store1 = {}
    /\ \E a, b \in WorkerBatches : workers = << Worker(a), Worker(b) >>

workervars == << store, schema, feed, pc, ret, df_owned, batch_size,
                 total_limit, new_rows, idx, last_dt, before, fetched_new,
                 stop, log, runNo, store0, store1 >>

\* lines 41-44: the rows without a seller are dropped; no row left, the
\* call returns, else the transaction is opened
WorkerBegin(w) ==
    /\ workers[w].state = "called"
    /\ LET kept == KeepSellers(workers[w].given)
       IN  workers' = [workers EXCEPT
                          ![w].rows = kept,
                          ![w].state = IF kept = << >> THEN "returned" ELSE "open"]
    /\ UNCHANGED workervars

\* the open transactions whose uncommitted row the next row of w collides with
WaitsFor(w) ==
    IF workers[w].state = "open" /\ workers[w].at <= Len(workers[w].rows)
    THEN { u \in (1..Len(workers)) \ { w } :
             /\ workers[u].state = "open"
             /\ workers[w].rows[workers[w].at].id \in Ids(workers[u].pending) }
    ELSE {}

\* the statement takes its next row
WorkerInsert(w) ==
    /\ workers[w].state = "open"
    /\ workers[w].at <= Len(workers[w].rows)
    /\ WaitsFor(w) = {}
    /\ LET r == StoredRow(workers[w].rows[workers[w].at])
       IN  workers' = [workers EXCEPT
                          ![w].at = @ + 1,
                          ![w].pending =
                              IF r.id \in Ids(store) \cup Ids(@) THEN @ ELSE @ \cup { r }]
    /\ UNCHANGED workervars

\* the with block ends: the transaction commits
WorkerCommit(w) ==
    /\ workers[w].state = "open"
    /\ workers[w].at > Len(workers[w].rows)
    /\ store' = store \cup workers[w].pending
    /\ workers' = [workers EXCEPT ![w].state = "returned", ![w].pending = {}]
    /\ UNCHANGED << schema, feed, pc, ret, df_owned, batch_size,
                    total_limit, new_rows, idx, last_dt, before, fetched_new,
                    stop, log, runNo, store0, store1 >>

\* w and another transaction wait for each other: the deadlock detector
\* aborts w, the call raises
DeadlockAbort(w) ==
    /\ \E u \in WaitsFor(w) : w \in WaitsFor(u)
    /\ workers' = [workers EXCEPT ![w].state = "raised", ![w].pending = {}]
    /\ UNCHANGED workervars

NextWorkers ==
    \E w \in 1..Len(workers) :
        \/ WorkerBegin(w)
        \/ WorkerInsert(w)
        \/ WorkerCommit(w)
        \/ DeadlockAbort(w)

SpecWorkers == InitWorkers /\ [][NextWorkers]_vars

\* ------------------------------- two calls of upsert_sales in a row
\* a caller about to hand two batches to upsert_sales, one after the other
InitUpsertPair ==
    /\ feed \in Feeds
    /\ schema = "notnull"
    /\ store \in WorkerStores
    /\ store0 = store
    /\ pc = "first"
    /\ \E a, b \in SeqsUpTo(InputRows, MaxRows) :
          ret = [op |-> "upsert_sales", args |-> [first |-> a, second |-> b],
                 value |-> FALSE]
    /\ df_owned = << >> /\ batch_size = 0 /\ total_limit = 0
    /\ new_rows = << >> /\ idx = 0 /\ last_dt = NaT /\ before = NoInt
    /\ fetched_new = 0 /\ stop = FALSE /\ log = << >>
    /\ runNo = 0 /\ store1 = {}
    /\ workers = << >>

\* upsert_sales(engine, first)
UpsertFirst ==
    /\ pc = "first"
    /\ LET out == UpsertSales(store, ret.args.first)
       IN  /\ store' = out.table
           /\ pc' = IF out.raised THEN "raised" ELSE "second"
           /\ ret' = [ret EXCEPT !.value = out.raised]
    /\ UNCHANGED << schema, feed, runvars >>

\* upsert_sales(engine, second)
UpsertSecond ==
    /\ pc = "second"
    /\ LET out == UpsertSales(store, ret.args.second)
       IN  /\ store' = out.table
           /\ pc' = IF out.raised THEN "raised" ELSE "both"
           /\ ret' = [ret EXCEPT !.value = out.raised]
    /\ UNCHANGED << schema, feed, runvars >>

NextUpsertPair == UpsertFirst \/ UpsertSecond

SpecUpsertPair == InitUpsertPair /\ [][NextUpsertPair]_vars

\* ================================================================ claims
AaaRare == Card("aaa", "Rare", FALSE)
AaaSuperRare == Card("aaa", "Super Rare", TRUE)
BbbRare == Card("bbb", "Rare", FALSE)

\* C1: a second run over the same inventory against the unchanged feed
\* leaves the table exactly as the first run left it: from the start of the
\* second run to its end the table equals the table the first run left.
C1_Idempotent == runNo = 2 => store = store1

\* C1 witness: the second run returned, after a first run that had found
\* new rows, and it accepted an already stored record again
C1_Witness ==
    /\ pc = "done" /\ runNo = 2
    /\ Len(df_owned) = 2
    /\ new_rows /= << >>
    /\ store1 /= {}

\* C2: the table never holds two rows with the same id
C2_Dedup == \A r, q \in store : r.id = q.id => r = q

\* C2 witness: an upsert_sales call whose batch repeats an id already in the
\* table with other field values has returned
C2_Witness ==
    /\ pc = "ret" /\ ret.op = "upsert_sales"
    /\ ret.args = << NewRow(S1, "aaa", "rare"), S1Alt >>
    /\ \E r \in store : r.id = "s1"

\* C3: once the program has ensured the schema, as it has before every
\* upsert_sales call and in every run, no row of the table lacks a seller
C3_SellerFilter ==
    schema = "notnull" => \A r \in store : r.seller_slug /= NoneStr

\* C3 witness: an upsert_sales call given a record without a seller and one
\* with a seller has returned and the table holds the latter
C3_Witness ==
    /\ pc = "ret" /\ ret.op = "upsert_sales"
    /\ ret.args = << NewRow(X1, "aaa", "super_rare"), NewRow(B1, "bbb", "rare") >>
    /\ \E r \in store : r.id = "b1"

\* C4: once a run has seen, in a page of an inventory row, a node dated at
\* or before that row's watermark, no step of the run issues another feed
\* request for that row.
C4_EarlyStop ==
    [][\A k \in 1..Len(log) :
          (k <= Len(log') /\ log[k].known) => log'[k].reqs = log[k].reqs]_vars

\* C4 witness: a run returned after it reached known history for a row one
\* node per page, with nodes of that row's feed left unrequested
C4_Witness ==
    /\ pc = "done"
    /\ batch_size = 1
    /\ \E k \in 1..Len(log) :
          /\ log[k].known
          /\ log[k].reqs < Len(feed[KeyOf(df_owned[k])].nodes)

\* the nodes of the feed of inventory row k that have a seller and are dated
\* after the watermark the run read for the row
NewerNodes(k) ==
    LET nodes == feed[KeyOf(df_owned[k])].nodes
    IN  { nodes[j] : j \in { i \in 1..Len(nodes) :
            /\ Truthy(nodes[i].userSeller)
            /\ nodes[i].date.kind = "iso"
            /\ (log[k].mark = NaT
                \/ nodes[i].date.local - nodes[i].date.off > log[k].mark[1]) } }

C6_PartialFailure ==
    (pc = "raised" /\ ret.args = "request") =>
        /\ idx = Len(df_owned)
        /\ \A k \in 1..Len(new_rows) : new_rows[k].id \in Ids(store)

\* the scenario's table for "aaa": sales at day -10 (5), day -5 (10) and
\* day -1 (15); the feed of the rare card returns day 0 (20), day -1, day -5
S1Stored == StoredRow(NewRow(S1, "aaa", "rare"))
S2Stored == StoredRow(NewRow(S2, "aaa", "rare"))
S3Stored == StoredRow(NewRow(S3, "aaa", "rare"))
Scenario == { S4Row, S3Stored, S2Stored }
AaaRows(table) == { r \in table : r.player_slug = "aaa" }
ScenarioRun ==
    /\ pc \in { "load", "done" }
    /\ df_owned = << AaaRare >>
    /\ AaaRows(store0) = Scenario
ScenarioWindow ==
    /\ pc = "ret" /\ ret.op = "load_sales_for_owned"
    /\ ret.args = [owned_slugs |-> << "aaa" >>, per_player_limit |-> 2]
    /\ AaaRows(store) = Scenario \cup { S1Stored }

C8_Immutable == [][store \subseteq store']_vars

\* C8 amended: no step removes or changes a row that has a seller (the rows
\* ensure_schema deletes are the legacy rows without a seller)
C8_SellerRowsImmutable ==
    [][\A r \in store : r.seller_slug /= NoneStr => r \in store']_vars

\* C8 witness: an upsert_sales call given a record whose id is stored with
\* other field values has returned and the stored row is as it was
C8_Witness ==
    /\ pc = "ret" /\ ret.op = "upsert_sales"
    /\ ret.args = << NewRow(S1, "aaa", "rare") >>
    /\ StoredRow(S1Alt) \in store

\* what upsert_sales(rows) is claimed to do to the table
HasSeller(r) == r.seller_slug \notin { NoneStr, "" }
UpsertEffect(old, rows, new) ==
    LET sellers == { k \in 1..Len(rows) : HasSeller(rows[k]) }
    IN  /\ old \subseteq new
        /\ Ids(new) = Ids(old) \cup { rows[k].id : k \in sellers }
        /\ \A r \in new \ old : \E k \in sellers :
              /\ r.id = rows[k].id
              /\ r.player_slug = rows[k].player_slug
              /\ r.price_eur = rows[k].price_eur
              /\ r.seller_slug = rows[k].seller_slug
              /\ r.buyer_slug = rows[k].buyer_slug
        /\ Cardinality(new) = Cardinality(Ids(new))

\* C9: an upsert_sales call, direct or at the end of a run, adds one row for
\* every id that a record with a seller brings and that is not stored,
\* leaves every stored row as it is, and does not raise; nothing changes
\* when every record is known or without a seller.
C9_Upsert ==
    [][/\ (pc = "idle" /\ pc' = "ret" /\ ret'.op = "upsert_sales") =>
            (ret'.value = FALSE /\ UpsertEffect(store, ret'.args, store'))
       /\ (pc = "for" /\ pc' = "load") =>
            UpsertEffect(store, new_rows, store')]_vars

\* C9 witness: an upsert_sales call given a record without a seller and a
\* record whose id is stored has returned
C9_Witness ==
    /\ pc = "ret" /\ ret.op = "upsert_sales"
    /\ ret.args = << NewRow(X1, "aaa", "super_rare"), S1Alt >>
    /\ S1Stored \in store

\* what a window of `limit` rows per player over `slugs` is claimed to be
WindowOf(table, slugs, limit, w) ==
    /\ \A i, j \in 1..Len(w) : i /= j => w[i] /= w[j]
    /\ Range(w) \subseteq table
    /\ \A i \in 1..Len(Players) :
          LET mine == { r \in table : r.player_slug = Players[i] }
              got == { r \in Range(w) : r.player_slug = Players[i] }
          IN  IF Players[i] \in Range(slugs)
              THEN /\ Cardinality(got) = Min2(limit, Cardinality(mine))
                   /\ \A g \in got, m \in mine \ got : m.date[1] <= g.date[1]
              ELSE got = {}

\* C10: load_sales_for_owned, called directly or at the end of a run,
\* returns for each requested player min(limit, stored rows) rows, none of
\* them older than a row of the player it leaves out, and no row of a player
\* that was not requested.
C10_Window ==
    /\ (pc = "ret" /\ ret.op = "load_sales_for_owned") =>
          WindowOf(store, ret.args.owned_slugs, ret.args.per_player_limit, ret.value)
    /\ pc = "done" =>
          WindowOf(store, UniqueSlugs(df_owned), total_limit, ret.value)

\* C10 witness: a window of 2 was read for "aaa" alone from a table that
\* holds more than 2 rows of "aaa" and rows of "bbb"
C10_Witness ==
    /\ pc = "ret" /\ ret.op = "load_sales_for_owned"
    /\ ret.args = [owned_slugs |-> << "aaa" >>, per_player_limit |-> 2]
    /\ Cardinality(AaaRows(store)) > 2
    /\ store /= AaaRows(store)
\* the rows of one player in a result are in order of date, latest first
LatestFirst(w) ==
    \A i, j \in 1..Len(w) :
        (i < j /\ w[i].player_slug = w[j].player_slug) =>
            w[i].date[1] >= w[j].date[1]

WeightBelow(d, w, v) ==
    SumSeq([k \in 1..Len(d) |-> IF ValueLeq(d[k], v) /\ d[k] /= v THEN w[k] ELSE 0])
WeightUpTo(d, w, v) ==
    SumSeq([k \in 1..Len(d) |-> IF ValueLeq(d[k], v) THEN w[k] ELSE 0])

\* C12: weighted_median returns one of its values, the first in ascending
\* order at which the cumulative weight reaches half of the total: the
\* values below it weigh less than half, the values up to it at least half;
\* [10, 20] with weights [1, 3] gives 20 and [5, 5, 5] with equal weights 5.
C12_WeightedMedian ==
    (pc = "ret" /\ ret.op = "weighted_median") =>
        LET d == ret.args.data
            w == ret.args.weights
        IN  /\ ret.value \in Range(d)
            /\ 2 * WeightBelow(d, w, ret.value) < SumSeq(w)
            /\ 2 * WeightUpTo(d, w, ret.value) >= SumSeq(w)
            /\ (d = << << 10 >>, << 20 >> >> /\ w = << 1, 3 >>) => ret.value = << 20 >>
            /\ (d = << << 5 >>, << 5 >>, << 5 >> >> /\ w[1] = w[2] /\ w[2] = w[3]) =>
                  ret.value = << 5 >>

\* C12 witness: weighted_median([10, 20], [1, 3]) returned 20
C12_Witness ==
    /\ pc = "ret" /\ ret.op = "weighted_median"
    /\ ret.args = [data |-> << << 10 >>, << 20 >> >>, weights |-> << 1, 3 >>]
    /\ ret.value = << 20 >>
\* the prices of one player in a sales frame, and the plain lower median of
\* a list of prices: with m = ceil(n / 2), fewer than m prices stand below
\* it and at least m at or below it (a missing price ranks above every
\* price)
PricesOf(df, slug) ==
    LET group == SelectSeq(df, LAMBDA r : r.player_slug = slug)
    IN  [k \in 1..Len(group) |-> group[k].price_eur]
IsLowerMedian(prices, v) ==
    LET m == (Len(prices) + 1) \div 2
    IN  /\ v \in Range(prices)
        /\ Cardinality({ k \in 1..Len(prices) : ValueLeq(prices[k], v) /\ prices[k] /= v }) < m
        /\ Cardinality({ k \in 1..Len(prices) : ValueLeq(prices[k], v) }) >= m

\* C13: with decay rate 0 every record weighs 1 and estimate_current_value
\* gives each player that has records the plain lower median of the
\* player's prices (the n/2-th smallest for an even n), whatever the dates.
C13_RateZero ==
    (pc = "ret" /\ ret.op = "estimate_current_value" /\ ret.args.lambda_ = 1) =>
        /\ \A span \in 0..3 : \A days \in 0..span : DecayWeight(1, days, span) = 1
        /\ \A i \in 1..Len(Players) :
              LET prices == PricesOf(ret.args.df, Players[i])
                  mine == { k \in 1..Len(ret.value.rows) :
                              ret.value.rows[k].player_slug = Players[i] }
              IN  IF prices = << >> THEN mine = {}
                  ELSE /\ Cardinality(mine) = 1
                       /\ \A k \in mine :
                             IsLowerMedian(prices, ret.value.rows[k].estimated_value_eur)

\* C13 witness: with rate 0, two sales of "aaa", the dearer one the later,
\* are estimated at the cheaper one
C13_Witness ==
    /\ pc = "ret" /\ ret.op = "estimate_current_value"
    /\ ret.args = [df |-> << Sale("aaa", << 1000 >>, 0), Sale("aaa", << 2000 >>, 1) >>,
                   lambda_ |-> 1]
    /\ ret.value.rows =
          << [player_slug |-> "aaa", estimated_value_eur |-> << 1000 >>] >>
\* a step that runs ensure_schema: the direct call, or the start of a run
EnsureSchemaStep ==
    \/ pc = "idle" /\ pc' = "ret" /\ ret'.op = "ensure_schema"
    \/ pc \in { "idle", "done" } /\ pc' = "for"

\* C14: every ensure_schema call leaves no row without a seller, leaves
\* every row that has a seller as it is, and changes nothing when
\* ensure_schema has run before.
C14_EnsureSchema ==
    [][EnsureSchemaStep =>
          /\ \A r \in store' : r.seller_slug /= NoneStr
          /\ store' = { r \in store : r.seller_slug /= NoneStr }
          /\ schema' = "notnull"
          /\ schema = "notnull" => store' = store]_vars

\* C14 witness: ensure_schema returned on a table that once held a row
\* without a seller and now holds a row written after an earlier call
C14_Witness ==
    /\ pc = "ret" /\ ret.op = "ensure_schema"
    /\ S4Row \in store /\ S1Stored \in store
    /\ L1Row \notin store
\* C15 as claimed: a run over an empty inventory issues no feed request,
\* touches neither the table nor its schema, and returns no record.
C15_EmptyInventory ==
    [][(df_owned' = << >> /\ pc' \in { "for", "load", "done" }) =>
          /\ store' = store
          /\ schema' = schema
          /\ log' = << >>
          /\ pc' = "done" => ret'.value = << >>]_vars
\* the ids the calls were given on rows that have a seller
SubmittedIds ==
    UNION { { workers[w].given[k].id :
                k \in { j \in 1..Len(workers[w].given) : HasSeller(workers[w].given[j]) } } :
            w \in 1..Len(workers) }

\* C16 as claimed: whatever the interleaving of the concurrent calls, none
\* raises, and when all have returned the table holds the rows it held plus
\* exactly one row for every id submitted on a row with a seller.
C16_ConcurrentUpsert ==
    /\ \A w \in 1..Len(workers) : workers[w].state /= "raised"
    /\ (\A w \in 1..Len(workers) : workers[w].state \in { "returned", "raised" }) =>
          /\ store0 \subseteq store
          /\ Ids(store) = Ids(store0) \cup SubmittedIds
          /\ Cardinality(store) = Cardinality(Ids(store))
\* C17: when a run was interrupted (a request or the window query raised)
\* and the same call is then made again and completes, the table holds
\* every row that the one run, had nothing interrupted it, would have left.
C17_Resumable ==
    (runNo = 3 /\ pc \in { "load", "done" }) =>
        FullRun(feed, store1, df_owned, batch_size, total_limit).table \subseteq store

\* C17 witness: the retried run has returned after accepting and storing
\* rows that the interrupted run had not written
C17_Witness ==
    /\ runNo = 3 /\ pc = "done"
    /\ new_rows /= << >>
    /\ store /= store1
    /\ \E k \in 1..Len(log) : log[k].reqs > 1
\* C18 as claimed: a node without a price is dropped: no accepted row (the
\* rows the quota counts) and no row of the table lacks a price.
C18_PriceDrop ==
    /\ \A k \in 1..Len(new_rows) : new_rows[k].price_eur /= NoInt
    /\ \A r \in store : r.price_eur /= NoInt
\* an upsert_sales call that was given a record without a seller has returned
SellerlessGiven ==
    /\ pc = "ret" /\ ret.op = "upsert_sales"
    /\ \E k \in 1..Len(ret.args) : ~ HasSeller(ret.args[k])

\* C19 as claimed: an upsert_sales call given a record without a seller
\* raises.
C19_SellerlessRaises == SellerlessGiven => ret.value = TRUE

\* C19 amended: an upsert_sales call given a record without a seller does
\* not raise; the record is left out and the table holds no row without a
\* seller.
C19_SellerlessSkipped ==
    SellerlessGiven =>
        /\ ret.value = FALSE
        /\ \A r \in store : r.seller_slug /= NoneStr

\* C19 witness: upsert_sales returned from a batch of one record without a
\* seller
C19_Witness ==
    /\ SellerlessGiven
    /\ ret.args = << NewRow(X1, "aaa", "super_rare") >>
    /\ ret.value = FALSE
\* the estimates estimate_current_value(df, lam) can give the player slug
EstimatesOf(df, lam, slug) ==
    UNION { { e.rows[k].estimated_value_eur :
                k \in { j \in 1..Len(e.rows) : e.rows[j].player_slug = slug } } :
            e \in EstimateCurrentValue(df, lam) }

\* the table t has one estimate column per rate of lams, in their order, and
\* each of its rows holds under every rate the estimate of its player
ColumnsPerRate(t, df, lams) ==
    /\ t.columns = lams
    /\ \A k \in 1..Len(t.rows) :
          /\ Len(t.rows[k].est) = Len(lams)
          /\ \A c \in 1..Len(lams) :
                t.rows[k].est[c] \in EstimatesOf(df, lams[c], t.rows[k].player_slug)

\* the table t has exactly one row for every player with a record in df
RowPerPlayer(t, df) ==
    \A i \in 1..Len(Players) :
        Cardinality({ k \in 1..Len(t.rows) : t.rows[k].player_slug = Players[i] })
            = (IF PricesOf(df, Players[i]) = << >> THEN 0 ELSE 1)

FeedNodes(k) == feed[KeyOf(df_owned[k])].nodes

\* the records accepted in this run for the k-th inventory row: its slice of
\* new_rows
AcceptedOf(k) ==
    LET sofar == [j \in 1..Len(log) |-> log[j].fetched]
        from == SumSeq(SubSeq(sofar, 1, k - 1))
    IN  SubSeq(new_rows, from + 1, Min2(from + sofar[k], Len(new_rows)))

AcceptedIds(k) == { AcceptedOf(k)[j].id : j \in 1..Len(AcceptedOf(k)) }

\* the i-th node of the row's feed is dated at or before the row's watermark
KnownNode(k, i) ==
    /\ log[k].mark /= NaT
    /\ FeedNodes(k)[i].date.kind = "iso"
    /\ FeedNodes(k)[i].date.local - FeedNodes(k)[i].date.off <= log[k].mark[1]

\* C21: once a node dated at or before the watermark was met in a page, no
\* node that follows it in the feed of that inventory row (same page or a
\* later one) is accepted as a new record, whatever its date.
C21_StopsAtKnown ==
    \A k \in 1..Len(log) :
        \A i, j \in 1..Len(log[k].seen) :
            (i < j /\ KnownNode(k, i)) => FeedNodes(k)[j].id \notin AcceptedIds(k)
\* C22: a feed request is issued for an inventory row only while fewer than
\* total_limit records were accepted for it and, if the row was requested
\* before, the last response carried nodes and left older nodes behind
\* (hasPreviousPage was true); requests concern the row being paged only.
C22_NoFurtherRequest ==
    [][\A k \in 1..Len(log) :
          (Len(log') = Len(log) /\ log'[k].reqs > log[k].reqs) =>
              /\ k = idx
              /\ Len(AcceptedOf(k)) < total_limit
              /\ log[k].reqs > 0 =>
                    /\ log[k].seen /= << >>
                    /\ Len(log[k].seen) < Len(FeedNodes(k))]_vars

\* C22 witness: a run returned in which one row was left on the quota with
\* older pages unread, and another on its first, empty, response.
C22_Witness ==
    /\ pc = "done"
    /\ \E k, e \in 1..Len(log) :
          /\ Len(AcceptedOf(k)) = total_limit
          /\ Len(log[k].seen) < Len(FeedNodes(k))
          /\ ~ log[k].known
          /\ FeedNodes(e) = << >>
          /\ log[e].reqs = 1
\* the instant of a date string that parses
InstantOf(d) == d.local - d.off

\* C23 as stated: every record accepted for an inventory row that has a
\* watermark is dated strictly after that watermark.
C23_AfterWatermark ==
    \A k \in 1..Len(log) :
        log[k].mark /= NaT =>
            \A j \in 1..Len(AcceptedOf(k)) :
                /\ AcceptedOf(k)[j].date.kind = "iso"
                /\ InstantOf(AcceptedOf(k)[j].date) > log[k].mark[1]

\* C23 amended: every record accepted for an inventory row that has a
\* watermark, and whose date parses, is dated strictly after that watermark;
\* a node dated exactly at the watermark is not accepted, whatever its id.
\* (A record whose date does not parse is accepted without the test.)
C23_ParsedAfterWatermark ==
    \A k \in 1..Len(log) :
        log[k].mark /= NaT =>
            /\ \A j \in 1..Len(AcceptedOf(k)) :
                  AcceptedOf(k)[j].date.kind = "iso" =>
                      InstantOf(AcceptedOf(k)[j].date) > log[k].mark[1]
            /\ \A i \in 1..Len(log[k].seen) :
                  (/\ FeedNodes(k)[i].date.kind = "iso"
                   /\ InstantOf(FeedNodes(k)[i].date) = log[k].mark[1])
                      => FeedNodes(k)[i].id \notin AcceptedIds(k)

\* C23 witness: a run returned that examined a node with a seller, dated
\* exactly at the watermark and with an id the table did not hold, and left
\* it out of the table.
C23_Witness ==
    /\ pc = "done"
    /\ \E k \in 1..Len(log) : \E i \in 1..Len(log[k].seen) :
          /\ log[k].mark /= NaT
          /\ FeedNodes(k)[i].date.kind = "iso"
          /\ InstantOf(FeedNodes(k)[i].date) = log[k].mark[1]
          /\ Truthy(FeedNodes(k)[i].userSeller)
          /\ FeedNodes(k)[i].id \notin Ids(store0)
          /\ FeedNodes(k)[i].id \notin Ids(store)
\* the nodes examined so far for the k-th inventory row that have a seller
\* and are not dated at or before its watermark
CountedNodes(k) ==
    { i \in 1..Len(log[k].seen) :
        Truthy(FeedNodes(k)[i].userSeller) /\ ~ KnownNode(k, i) }

\* C24: at every point of the pagination of an inventory row, fetched_new is
\* the number of records appended to new_rows for that row in this run, which
\* is the number of nodes examined for it that have a seller and are not
\* known; every record of new_rows has a seller.
C24_QuotaCounter ==
    idx \in 1..Len(log) =>
        LET earlier == SumSeq([j \in 1..(idx - 1) |-> log[j].fetched])
        IN  /\ fetched_new = Len(new_rows) - earlier
            /\ fetched_new = Cardinality(CountedNodes(idx))
            /\ \A j \in 1..Len(new_rows) : new_rows[j].seller_slug \notin { NoneStr, "" }

\* C24 witness: in the second inventory row of a run, after records were
\* accepted for the first, a node without a seller was examined and a later
\* node was accepted.
C24_Witness ==
    /\ idx = 2 /\ Len(log) = 2
    /\ log[1].fetched > 0
    /\ fetched_new > 0
    /\ \E i \in 1..Len(log[2].seen) :
          /\ ~ Truthy(FeedNodes(2)[i].userSeller)
          /\ ~ KnownNode(2, i)
          /\ \E j \in CountedNodes(2) : i < j
\* C25: every feed request is issued for the inventory row being paged; the
\* first request of a row carries no cursor, and every later request of the
\* row carries the startCursor of the row's preceding response, which marks
\* the end of the nodes delivered so far for that row. A response after
\* which the row is paged on hands its startCursor to the next request.
C25_Cursor ==
    [][/\ \A k \in 1..Len(log) :
            (Len(log') = Len(log) /\ log'[k].reqs > log[k].reqs) =>
                /\ k = idx
                /\ before = IF log[k].reqs = 0 THEN NoInt
                            ELSE << Len(log[k].seen) >>
       /\ (pc = "while" /\ pc' = "while") =>
              before' = Response(feed, KeyOf(df_owned[idx]), before,
                                 batch_size).startCursor]_vars

\* C25 witness: a run returned that paged each of two inventory rows with
\* more than one request.
C25_Witness ==
    /\ pc = "done"
    /\ Len(log) = 2
    /\ log[1].reqs > 1
    /\ log[2].reqs > 1
\* the rows of a window that belong to the k-th inventory row
WindowRowsOf(w, k) ==
    { r \in Range(w) : /\ r.player_slug = df_owned[k].player_slug
                       /\ r.rarity = RarityKey(df_owned[k].rarity) }

\* C26: a run reads its window in one step, the only one that makes it
\* return: the step is taken after every inventory row was paged and after
\* the step that upserted new_rows (which put every accepted id in the
\* table), it does not write, and its window is the one of the table as it
\* then is, over every owned player with limit total_limit: at most
\* total_limit records per inventory row. Once returned, the run reads
\* nothing more.
C26_OneLoad ==
    [][/\ (pc /= "load" /\ pc' = "load") =>
              /\ pc = "for"
              /\ idx = Len(df_owned) /\ Len(log) = Len(df_owned)
              /\ store0 \subseteq store'
              /\ \A j \in 1..Len(new_rows) : new_rows[j].id \in Ids(store')
       /\ (pc /= "done" /\ pc' = "done") =>
              /\ pc = "load"
              /\ store' = store
              /\ WindowOf(store, [k \in 1..Len(df_owned) |-> df_owned[k].player_slug],
                          total_limit, ret'.value)
              /\ \A k \in 1..Len(df_owned) :
                    Cardinality(WindowRowsOf(ret'.value, k)) <= total_limit
       /\ pc = "load" => pc' = "done"
       /\ pc = "done" => pc' = "idle"]_vars

\* C26 witness: a run returned a window that holds a row written in this
\* run and a row the table held before, and leaves out a row of an owned
\* player because of the limit.
C26_Witness ==
    /\ pc = "done"
    /\ \E r \in Range(ret.value) : r \in store \ store0
    /\ \E r \in Range(ret.value) : r \in store0
    /\ \E r \in store \ Range(ret.value) :
          \E k \in 1..Len(df_owned) : r.player_slug = df_owned[k].player_slug
\* df_owned in another order
Reordered(p) == [i \in 1..Len(df_owned) |-> df_owned[p[i]]]

\* C27: when a run has upserted (or its upsert raised), a run over the same
\* feed, from the table this run found, that processes the inventory rows in
\* any other order ends the same way: it raises if and only if this run
\* raised, leaves the table this run left, and can return the window this
\* run returned. So does one upsert of the records this run accepted, taken
\* in any order (the records of the rows interleaved).
C27_OrderFree ==
    (pc \in { "load", "done" } \/ (pc = "raised" /\ ret.args = "upsert")) =>
        \A p \in Permutations(1..Len(df_owned)) :
            LET out == FullRun(feed, store0, Reordered(p), batch_size, total_limit)
            IN  /\ out.raised = (pc = "raised")
                /\ out.table = store
                /\ pc = "done" =>
                      ret.value \in LoadSalesForOwned(out.table,
                                        UniqueSlugs(Reordered(p)), total_limit)
                /\ Len(new_rows) <= MaxShuffle =>
                      \A q \in Permutations(1..Len(new_rows)) :
                          UpsertSales(store0, [i \in 1..Len(new_rows) |->
                                                 new_rows[q[i]]]) = out

\* C27 witness: a run returned that wrote records of two inventory rows of
\* the same player, the second of which has a node older than a record
\* accepted for the first.
C27_Witness ==
    /\ pc = "done"
    /\ Len(df_owned) = 2
    /\ df_owned[1] /= df_owned[2]
    /\ df_owned[1].player_slug = df_owned[2].player_slug
    /\ log[1].fetched > 0 /\ log[2].fetched > 0
    /\ \E i \in 1..Len(log[1].seen), j \in 1..Len(log[2].seen) :
          /\ FeedNodes(1)[i].id \in AcceptedIds(1)
          /\ FeedNodes(2)[j].id \in AcceptedIds(2)
          /\ FeedNodes(1)[i].date.kind = "iso"
          /\ FeedNodes(2)[j].date.kind = "iso"
          /\ InstantOf(FeedNodes(2)[j].date) < InstantOf(FeedNodes(1)[i].date)
\* rows in the order p
Shuffled(rows, p) == [i \in 1..Len(rows) |-> rows[p[i]]]

\* the table after the two batches in the other order
OtherOrder ==
    UpsertSales(UpsertSales(store0, ret.args.second).table, ret.args.first).table

\* C28 as stated: two upsert_sales calls leave the table the calls in the
\* other order leave, and a call leaves the table it leaves for its records
\* in any other order.
C28_OrderFree ==
    /\ pc = "second" =>
          \A p \in Permutations(1..Len(ret.args.first)) :
              UpsertSales(store0, Shuffled(ret.args.first, p)).table = store
    /\ pc = "both" => store = OtherOrder

\* records with a seller that share an id are the same record
Agree(rows) ==
    \A i, j \in 1..Len(rows) :
        (HasSeller(rows[i]) /\ HasSeller(rows[j]) /\ rows[i].id = rows[j].id)
            => rows[i] = rows[j]

\* the row comes from the first record of rows that has a seller and its id
FirstWins(r, rows) ==
    \E k \in 1..Len(rows) :
        /\ HasSeller(rows[k]) /\ rows[k].id = r.id
        /\ \A j \in 1..(k - 1) : ~ (HasSeller(rows[j]) /\ rows[j].id = r.id)
        /\ r.price_eur = rows[k].price_eur
        /\ r.seller_slug = rows[k].seller_slug
        /\ r.buyer_slug = rows[k].buyer_slug

\* C28 amended: the order of two upsert_sales calls, and of the records of
\* one call, does not change which ids are stored nor any row stored before,
\* and does not change the table at all when the records that share an id
\* are the same record; a new id is stored as its first record with a
\* seller gives it, in the order of the calls and of the records.
C28_OrderFreeIds ==
    /\ pc = "second" =>
          /\ \A r \in store \ store0 : FirstWins(r, ret.args.first)
          /\ \A p \in Permutations(1..Len(ret.args.first)) :
                LET t == UpsertSales(store0, Shuffled(ret.args.first, p)).table
                IN  /\ Ids(t) = Ids(store)
                    /\ store0 \subseteq t
                    /\ Agree(ret.args.first) => t = store
    /\ pc = "both" =>
          /\ \A r \in store \ store0 :
                FirstWins(r, ret.args.first \o ret.args.second)
          /\ Ids(OtherOrder) = Ids(store)
          /\ store0 \subseteq OtherOrder /\ store0 \subseteq store
          /\ Agree(ret.args.first \o ret.args.second) => OtherOrder = store

\* C28 witness: two calls returned whose batches bring the same new id with
\* different prices, next to another new id and a record without a seller.
C28_Witness ==
    /\ pc = "both"
    /\ ~ Agree(ret.args.first \o ret.args.second)
    /\ \E r \in store \ store0 : \E k \in 1..Len(ret.args.second) :
          ret.args.second[k].id = r.id /\ ret.args.second[k].price_eur /= r.price_eur
    /\ Cardinality(store \ store0) > 1
    /\ \E k \in 1..Len(ret.args.first) : ~ HasSeller(ret.args.first[k])
\* C29: a run, once begun, returns or raises, wherever it is: between two
\* inventory rows, in the pagination of a row (which it leaves only by the
\* end of that pagination or by an exception), or before the window read.
C29_Terminates ==
    (pc \in { "for", "while", "load" }) ~> (pc \in { "done", "raised" })

\* C29 witness: a run returned after it paged an inventory row to the end
\* of its feed, in more than one request, without accepting any record and
\* without meeting known history.
C29_Witness ==
    /\ pc = "done"
    /\ \E k \in 1..Len(log) :
          /\ log[k].reqs > 1
          /\ log[k].fetched = 0
          /\ ~ log[k].known
          /\ Len(log[k].seen) = Len(FeedNodes(k))
\* the feed of the k-th inventory row is ordered newest first (every date
\* parses, no node is newer than the node before it)
NewestFirst(k) ==
    /\ \A i \in 1..Len(FeedNodes(k)) : FeedNodes(k)[i].date.kind = "iso"
    /\ \A i \in 1..(Len(FeedNodes(k)) - 1) :
          InstantOf(FeedNodes(k)[i + 1].date) <= InstantOf(FeedNodes(k)[i].date)

\* the nodes of the feed of the k-th inventory row dated after its watermark
\* (all of them when the row has no watermark)
NewerThanMark(k) ==
    { i \in 1..Len(FeedNodes(k)) :
        \/ log[k].mark = NaT
        \/ /\ FeedNodes(k)[i].date.kind = "iso"
           /\ InstantOf(FeedNodes(k)[i].date) > log[k].mark[1] }

\* C30: for an inventory row whose feed is ordered newest first, the number
\* of feed requests issued so far is at most floor(k / batch_size) + 1, k
\* being the number of feed nodes dated after the row's watermark.
C30_RequestBound ==
    \A k \in 1..Len(log) :
        NewestFirst(k) =>
            log[k].reqs <= (Cardinality(NewerThanMark(k)) \div batch_size) + 1

\* C30 witness: a run returned that issued exactly floor(k / batch_size) + 1
\* requests for a row with a watermark and k > 0 newer nodes, and left two
\* or more older nodes of its feed unread.
C30_Witness ==
    /\ pc = "done"
    /\ \E k \in 1..Len(log) :
          /\ NewestFirst(k)
          /\ log[k].mark /= NaT
          /\ NewerThanMark(k) /= {}
          /\ log[k].reqs = (Cardinality(NewerThanMark(k)) \div batch_size) + 1
          /\ Len(log[k].seen) + 2 <= Len(FeedNodes(k))
\* C31: from the first inventory row of a run to its window read the table
\* is written by one step only, the upsert of new_rows after the last row
\* was paged; every other step of the run leaves it as the run found it
\* (schema ensured), and every watermark of the run is read from that table.
C31_SingleWrite ==
    [][/\ (pc \in { "for", "while", "load" } /\ store' /= store) =>
              /\ pc = "for" /\ pc' = "load"
              /\ idx = Len(df_owned)
              /\ store = store0
              /\ store' = UpsertSales(store0, new_rows).table
       /\ (pc = "for" /\ idx' = idx + 1) =>
              /\ store = store0
              /\ last_dt' = MaxDate(store0, df_owned[idx'].player_slug)
              /\ log'[idx'].mark = last_dt'
              /\ new_rows' = new_rows]_vars

\* C31 witness: the second inventory row of a run is being paged against a
\* watermark older than a record already accepted for the first row, of the
\* same player, and the table is still as the run found it.
C31_Witness ==
    /\ pc = "while" /\ idx = 2
    /\ df_owned[1].player_slug = df_owned[2].player_slug
    /\ store = store0
    /\ \E j \in 1..Len(new_rows) :
          /\ new_rows[j].date.kind = "iso"
          /\ (last_dt = NaT \/ InstantOf(new_rows[j].date) > last_dt[1])
\* C32: fewer than total_limit + batch_size records are accepted for one
\* inventory row in one run, and every node of a fetched page that has a
\* seller and is not known is accepted, also past the quota; the quota only
\* decides whether another page is requested.
C32_QuotaBetweenPages ==
    \A k \in 1..Len(log) :
        /\ Len(AcceptedOf(k)) < total_limit + batch_size
        /\ \A i \in CountedNodes(k) : FeedNodes(k)[i].id \in AcceptedIds(k)
        /\ (pc = "while" /\ k = idx) => Len(AcceptedOf(k)) < total_limit

\* C32 witness: a run returned that accepted more than total_limit records
\* for an inventory row, the last ones from the page in which the quota was
\* reached, and left older nodes of the row unrequested.
C32_Witness ==
    /\ pc = "done"
    /\ \E k \in 1..Len(log) :
          /\ Len(AcceptedOf(k)) > total_limit
          /\ ~ log[k].known
          /\ Len(log[k].seen) < Len(FeedNodes(k))
\* the rows of the table the run found that belong to the player of the
\* k-th inventory row, of any rarity and eligibility
PlayerRows(k) == { r \in store0 : r.player_slug = df_owned[k].player_slug }

\* C33: the watermark of an inventory row is the date of a stored row of its
\* player that no stored row of the player exceeds, whatever the rarity and
\* eligibility of the rows, and none when the player has no stored row; two
\* inventory rows of one player have the same watermark in a run.
C33_PlayerWatermark ==
    /\ \A k \in 1..Len(log) :
          IF PlayerRows(k) = {}
          THEN log[k].mark = NaT
          ELSE /\ \E r \in PlayerRows(k) : r.date = log[k].mark
               /\ \A r \in PlayerRows(k) : r.date[1] <= log[k].mark[1]
    /\ \A j, k \in 1..Len(log) :
          df_owned[j].player_slug = df_owned[k].player_slug
              => log[j].mark = log[k].mark
    /\ idx \in 1..Len(log) => last_dt = log[idx].mark

\* C33 witness: a run that accepted records for a row of a player is paging
\* a row of the same player in another rarity, against a watermark that is
\* the date of a stored row of the first rarity.
C33_Witness ==
    /\ pc = "while" /\ idx = 2
    /\ df_owned[1].player_slug = df_owned[2].player_slug
    /\ df_owned[1].rarity /= df_owned[2].rarity
    /\ log[1].fetched > 0
    /\ last_dt /= NaT
    /\ \A r \in PlayerRows(2) :
          r.date = last_dt => r.rarity /= RarityKey(df_owned[2].rarity)
\* C34: a node examined for an inventory row whose date is missing or does
\* not parse is accepted if it has a seller, with or without a watermark,
\* and the stop flag is set only when a node with a date that parses, at or
\* before the watermark, was examined.
C34_Undated ==
    \A k \in 1..Len(log) :
        /\ \A i \in 1..Len(log[k].seen) :
              (FeedNodes(k)[i].date.kind /= "iso" /\ Truthy(FeedNodes(k)[i].userSeller))
                  => FeedNodes(k)[i].id \in AcceptedIds(k)
        /\ log[k].fetched >=
              Cardinality({ i \in 1..Len(log[k].seen) :
                              /\ FeedNodes(k)[i].date.kind /= "iso"
                              /\ Truthy(FeedNodes(k)[i].userSeller) })
        /\ (k = idx /\ stop) => \E i \in 1..Len(log[k].seen) : KnownNode(k, i)

\* C34 witness: an inventory row with a watermark is being paged on after a
\* node without a date, with a seller, was accepted and counted for it.
C34_Witness ==
    /\ pc = "while"
    /\ last_dt /= NaT
    /\ ~ stop
    /\ fetched_new = 1
    /\ \E i \in 1..Len(log[idx].seen) :
          /\ FeedNodes(idx)[i].date.kind = "none"
          /\ FeedNodes(idx)[i].id \in AcceptedIds(idx)
\* the feed has no player object for the request the run is about to send
NoPlayerNext ==
    LET part == feed[KeyOf(df_owned[idx])]
        from == IF before = NoInt THEN 0 ELSE before[1]
    IN  part.player = NoneStr \/ from >= part.gone

\* the pagination of the k-th inventory row ended on a response without a
\* player object
EndedNoPlayer(k) ==
    LET part == feed[KeyOf(df_owned[k])]
    IN  /\ log[k].reqs > 0
        /\ ~ log[k].known
        /\ (k = idx => pc /= "while")
        /\ part.player = NoneStr \/ Len(log[k].seen) >= part.gone

\* C35: when every request is answered, a request answered without a
\* player object ends the pagination of the inventory row and nothing else:
\* the run is back at the loop over the rows, with new_rows, the counter and
\* the table as they were, and has not raised; the upsert after the last row
\* puts in the table every record accepted for a row whose pagination ended
\* that way.
C35_NoPlayer ==
    [][/\ (pc = "while" /\ NoPlayerNext) =>
              /\ pc' = "for"
              /\ idx' = idx
              /\ new_rows' = new_rows
              /\ fetched_new' = fetched_new
              /\ store' = store
              /\ log'[idx].reqs = log[idx].reqs + 1
       /\ (pc = "for" /\ pc' = "load") =>
              \A k \in 1..Len(log) :
                  EndedNoPlayer(k) => AcceptedIds(k) \subseteq Ids(store')]_vars

\* C35 witness: a run returned whose first inventory row was paged for more
\* than one request, had records accepted, and ended on a response without a
\* player object with older nodes unread; the records are in the table, new,
\* and the second row was requested after it.
C35_Witness ==
    /\ pc = "done"
    /\ Len(log) = 2
    /\ EndedNoPlayer(1)
    /\ log[1].reqs > 1
    /\ Len(log[1].seen) < Len(FeedNodes(1))
    /\ AcceptedIds(1) /= {}
    /\ AcceptedIds(1) \subseteq Ids(store) \ Ids(store0)
    /\ log[2].reqs > 0
====
